---- MODULE Spec2Model ----
(***************************************************************************)
(* Model of the thinking-params stripping proxy (src/proxy.py).            *)
(*                                                                         *)
(* Two specifications:                                                     *)
(*   SpecStrip  the Field Stripper, ProxyHandler._strip_thinking_params,   *)
(*              applied to every JSON value tree of at most MaxNodes nodes *)
(*   Spec       the HTTPServer of main() handling requests with            *)
(*              ProxyHandler (do_GET, do_POST, _proxy_request)             *)
(***************************************************************************)
EXTENDS Integers, Sequences, FiniteSets, TLC

(***************************************************************************)
(* JSON value trees (what json.loads returns).  A node is a record         *)
(*   t   "obj" (dict), "arr" (list) or "num" (a scalar)                    *)
(*   s   the scalar's value (0 for containers)                             *)
(*   ks  a dict's keys, in insertion order (<<>> otherwise)                *)
(*   c   a dict's values, aligned with ks, or a list's items               *)
(***************************************************************************)
Num(n) == [t |-> "num", s |-> n, ks |-> <<>>, c |-> <<>>]
Arr(items) == [t |-> "arr", s |-> 0, ks |-> <<>>, c |-> items]
Obj(keys, vals) == [t |-> "obj", s |-> 0, ks |-> keys, c |-> vals]

\* Largest number of nodes of a tree handed to the stripper in SpecStrip.
MaxNodes == 4

\* Keys the generated trees use: a forbidden one and two others.
TreeKeys == {"thinking", "model", "text"}

Leaves == {Num(1), Arr(<<>>), Obj(<<>>, <<>>)}

\* The sequences of n distinct keys.
KeySeqs(n) ==
  {ks \in [1..n -> TreeKeys] : \A i, j \in 1..n : i # j => ks[i] # ks[j]}

\* The sequences of at most n distinct keys.
KeySeqsUpTo(n) == UNION {KeySeqs(k) : k \in 0..n}

RECURSIVE TreesOfSize(_), Forests(_)
\* The non-empty sequences of trees with n nodes in total.
Forests(n) ==
  UNION {{<<t>> \o f : t \in TreesOfSize(j),
                       f \in (IF j = n THEN {<<>>} ELSE Forests(n - j))}
         : j \in 1..n}

\* The trees with exactly n nodes: a list or a dict over n - 1 nodes of children.
TreesOfSize(n) ==
  IF n = 1 THEN Leaves
  ELSE LET fs == Forests(n - 1) IN
       {Arr(f) : f \in fs}
       \cup {Obj(q[1], q[2]) : q \in {r \in KeySeqsUpTo(n - 1) \X fs : Len(r[1]) = Len(r[2])}}

Trees == UNION {TreesOfSize(n) : n \in 1..MaxNodes}

(***************************************************************************)
(* ProxyHandler._strip_thinking_params                                     *)
(***************************************************************************)
thinking_keys ==
  {"thinking", "extended_thinking", "thinking_budget", "budget_tokens"}

IsDictOnly(v) == v.t = "obj"

\* isinstance(x, (dict, list))
IsDictOrList(v) == v.t \in {"obj", "arr"}

KeyIndex(d, key) == CHOOSE i \in 1..Len(d.ks) : d.ks[i] = key

RemoveAt(s, i) == SubSeq(s, 1, i - 1) \o SubSeq(s, i + 1, Len(s))

\* del data[key]
DelKey(d, key) ==
  [d EXCEPT !.ks = RemoveAt(d.ks, KeyIndex(d, key)),
            !.c = RemoveAt(d.c, KeyIndex(d, key))]

\* data[key]
GetKey(d, key) == d.c[KeyIndex(d, key)]

\* The effect on data of an in-place change of data[key] to v.
SetKey(d, key, v) == [d EXCEPT !.c[KeyIndex(d, key)] = v]

RECURSIVE strip_thinking_params(_), StripDict(_, _, _), StripList(_, _)

\* for key in list(data.keys()): ...   over the snapshot keys, from index i;
\* st = [d |-> the dict so far, m |-> modified so far]
StripDict(st, keys, i) ==
  IF i > Len(keys) THEN st
  ELSE LET key == keys[i] IN
       IF key \in thinking_keys
       THEN StripDict([d |-> DelKey(st.d, key), m |-> TRUE], keys, i + 1)
       ELSE IF IsDictOrList(GetKey(st.d, key))
       THEN LET r == strip_thinking_params(GetKey(st.d, key)) IN
            StripDict([d |-> SetKey(st.d, key, r.d), m |-> (st.m \/ r.m)],
                      keys, i + 1)
       ELSE StripDict(st, keys, i + 1)

\* for item in data: ...   from index i
StripList(st, i) ==
  IF i > Len(st.d.c) THEN st
  ELSE IF IsDictOrList(st.d.c[i])
  THEN LET r == strip_thinking_params(st.d.c[i]) IN
       StripList([d |-> [st.d EXCEPT !.c[i] = r.d], m |-> (st.m \/ r.m)], i + 1)
  ELSE StripList(st, i + 1)

\* Returns [d |-> data as the call leaves it, m |-> the returned flag].
strip_thinking_params(data) ==
  IF data.t = "obj" THEN StripDict([d |-> data, m |-> FALSE], data.ks, 1)
  ELSE IF data.t = "arr" THEN StripList([d |-> data, m |-> FALSE], 1)
  ELSE [d |-> data, m |-> FALSE]

(***************************************************************************)
(* Bytes.  A body is a sequence of tokens, each standing for the bytes of   *)
(* one JSON lexeme; a dict key token stands for the key in its quotes.      *)
(***************************************************************************)
\* The number of bytes of a token.
TokLen(tok) ==
  CASE tok = "model" -> 7
    [] tok = "text" -> 6
    [] tok = "thinking" -> 10
    [] tok = "hello" -> 5
    [] OTHER -> 1

RECURSIVE ByteLen(_)
\* len(body)
ByteLen(b) == IF b = <<>> THEN 0 ELSE TokLen(Head(b)) + ByteLen(Tail(b))

\* A byte that is no valid UTF-8, and a text that is no JSON.
BadUtf8Body == <<"\\xff">>
NotJsonBody == <<"hello">>

\* The separators of json.dumps (", " and ": ") and those of a compact encoder.
Sep(style, tok) == IF style = "dumps" THEN <<tok, " ">> ELSE <<tok>>

RECURSIVE Encode(_, _), EncodeItems(_, _, _)
\* The items of a container from index i on, with their separators.
EncodeItems(v, style, i) ==
  IF i > Len(v.c) THEN <<>>
  ELSE (IF i > 1 THEN Sep(style, ",") ELSE <<>>)
       \o (IF v.t = "obj" THEN <<v.ks[i]>> \o Sep(style, ":") ELSE <<>>)
       \o Encode(v.c[i], style)
       \o EncodeItems(v, style, i + 1)

\* The text of a tree in the given separator style.
Encode(v, style) ==
  IF v.t = "num" THEN <<ToString(v.s)>>
  ELSE IF v.t = "arr" THEN <<"[">> \o EncodeItems(v, style, 1) \o <<"]">>
  ELSE <<"{">> \o EncodeItems(v, style, 1) \o <<"}">>

\* json.dumps(data).encode("utf-8")
dumps(data) == Encode(data, "dumps")

\* The trees the bodies of Spec are texts of.
BodyTrees ==
  { Num(1),
    Obj(<<>>, <<>>),
    Obj(<<"model">>, <<Num(1)>>),
    Obj(<<"model", "thinking">>, <<Num(1), Obj(<<"text">>, <<Num(1)>>)>>),
    Obj(<<"model">>, <<Arr(<<Obj(<<"thinking", "text">>, <<Num(1), Num(1)>>)>>)>>) }

Styles == {"dumps", "compact"}

JsonBodies == {Encode(t, st) : t \in BodyTrees, st \in Styles}

\* json.loads(body): the tree, or the exception raised.  UnicodeDecodeError is a
\* ValueError that is no JSONDecodeError.
loads(body) ==
  IF body \in JsonBodies
  THEN [exc |-> "none",
        data |-> CHOOSE t \in BodyTrees : \E st \in Styles : Encode(t, st) = body]
  ELSE IF \E i \in 1..Len(body) : body[i] = "\\xff"
  THEN [exc |-> "UnicodeDecodeError", data |-> Num(0)]
  ELSE [exc |-> "JSONDecodeError", data |-> Num(0)]

(***************************************************************************)
(* Headers: sequences of [k |-> name, v |-> value], as Message.items() and  *)
(* an insertion-ordered dict give them.                                     *)
(***************************************************************************)
Hdr(k, v) == [k |-> k, v |-> v]

\* A header name with its letters folded to lower case.
FoldCase(k) ==
  CASE k \in {"Host", "HOST"} -> "host"
    [] k \in {"Connection", "connection"} -> "connection"
    [] k \in {"Keep-Alive", "Keep-alive"} -> "keep-alive"
    [] k \in {"Transfer-Encoding", "transfer-encoding", "Transfer-encoding"}
         -> "transfer-encoding"
    [] k \in {"Content-Length", "content-length", "CONTENT-LENGTH", "Content-length"}
         -> "content-length"
    [] k \in {"X-Api-Key", "X-api-key"} -> "x-api-key"
    [] OTHER -> k

KeepCase(k) == k

\* key.lower()
Lower(k) == FoldCase(k)

\* str.capitalize() on the header names of the model.
Capitalize(k) ==
  CASE FoldCase(k) = "host" -> "Host"
    [] FoldCase(k) = "connection" -> "Connection"
    [] FoldCase(k) = "keep-alive" -> "Keep-alive"
    [] FoldCase(k) = "transfer-encoding" -> "Transfer-encoding"
    [] FoldCase(k) = "content-length" -> "Content-length"
    [] FoldCase(k) = "x-api-key" -> "X-api-key"
    [] OTHER -> k

\* d[k] = v on an insertion-ordered dict: a present key keeps its place.
DictSet(d, k, v) ==
  IF \E i \in 1..Len(d) : d[i].k = k
  THEN [i \in 1..Len(d) |-> IF d[i].k = k THEN Hdr(k, v) ELSE d[i]]
  ELSE Append(d, Hdr(k, v))

\* Largest magnitude of a Content-Length value the model parses.
MaxInt == 40

\* int(x) of a header value: the number, or ValueError.
int(x) ==
  IF \E n \in (-MaxInt)..MaxInt : ToString(n) = x
  THEN [exc |-> "none", n |-> CHOOSE n \in (-MaxInt)..MaxInt : ToString(n) = x]
  ELSE [exc |-> "ValueError", n |-> 0]

\* self.headers.get("Content-Length", 0), then int(): Message.get matches the name
\* in any case and returns the first match; the default 0 is an int already.
content_length(hdrs) ==
  LET hits == SelectSeq(hdrs, LAMBDA h : FoldCase(h.k) = "content-length") IN
  IF hits = <<>> THEN [exc |-> "none", n |-> 0] ELSE int(hits[1].v)

(***************************************************************************)
(* The handler's steps, ProxyHandler._proxy_request, as functions           *)
(***************************************************************************)
NoExc == [cls |-> "none", msg |-> ""]
Exc(cls) == [cls |-> cls, msg |-> "detail"]

\* self.rfile.read(n): the first n bytes of what the client sent.
RECURSIVE read(_, _)
read(sent, n) ==
  IF sent = <<>> \/ TokLen(Head(sent)) > n THEN <<>>
  ELSE <<Head(sent)>> \o read(Tail(sent), n - TokLen(Head(sent)))

\* Lines 31-32.  None is modelled as the empty body: both are falsy.
ReadBody(request) ==
  LET cl == content_length(request.hdrs) IN
  IF cl.exc # "none" THEN [exc |-> Exc(cl.exc), body |-> <<>>]
  ELSE [exc |-> NoExc, body |-> IF cl.n > 0 THEN read(request.sent, cl.n) ELSE <<>>]

StripAlways(method) == TRUE

\* do_GET calls _proxy_request(), do_POST _proxy_request(strip_thinking=True).
strip_thinking(method) == method = "POST"

\* Line 41: the body after a successful decode and strip, r the stripper's result.
Reencode(body, r) == dumps(r.d)

\* Lines 35-43: [exc, body, decoded, modified].  Only JSONDecodeError is caught.
StripBody(method, body) ==
  IF ~(strip_thinking(method) /\ body # <<>>)
  THEN [exc |-> NoExc, body |-> body, decoded |-> "no", modified |-> FALSE]
  ELSE LET l == loads(body) IN
       IF l.exc = "JSONDecodeError"
       THEN [exc |-> NoExc, body |-> body, decoded |-> "failed", modified |-> FALSE]
       ELSE IF l.exc # "none"
       THEN [exc |-> Exc(l.exc), body |-> body, decoded |-> "failed", modified |-> FALSE]
       ELSE LET r == strip_thinking_params(l.data) IN
            [exc |-> NoExc, body |-> Reencode(body, r), decoded |-> "yes",
             modified |-> r.m]

skip_headers == {"host", "connection", "keep-alive", "transfer-encoding"}

RECURSIVE CopyHeaders(_, _, _)
\* Lines 49-53: for key, value in self.headers.items(): ...   from index i
CopyHeaders(d, hdrs, i) ==
  IF i > Len(hdrs) THEN d
  ELSE IF Lower(hdrs[i].k) \notin skip_headers
  THEN CopyHeaders(DictSet(d, hdrs[i].k, hdrs[i].v), hdrs, i + 1)
  ELSE CopyHeaders(d, hdrs, i + 1)

\* Lines 49-57: the headers dict handed to Request.
BuildHeaders(hdrs, body) ==
  LET d == CopyHeaders(<<>>, hdrs, 1) IN
  IF body # <<>> THEN DictSet(d, "Content-Length", ToString(ByteLen(body))) ELSE d

RECURSIVE AddHeaders(_, _, _)
\* Request.__init__: for key, value in headers.items(): self.add_header(key, value),
\* which stores under key.capitalize().
AddHeaders(d, headers, i) ==
  IF i > Len(headers) THEN d
  ELSE AddHeaders(DictSet(d, Capitalize(headers[i].k), headers[i].v), headers, i + 1)

\* Lines 61-66: urllib.request.Request(target_url, data=body, headers=headers,
\* method=self.command).
Request(method, headers, body) ==
  [method |-> method, hdrs |-> AddHeaders(<<>>, headers, 1), data |-> body]

NoReq == [method |-> "", hdrs |-> <<>>, data |-> <<>>]

\* The except clauses of lines 74-105 in their order: the classes each catches,
\* the status it sends and the body it writes.
Handlers ==
  << [catch |-> {"HTTPError"}, status |-> 0, text |-> "relay"],
     [catch |-> {"URLError"}, status |-> 503, text |-> "Service unavailable: {reason}"],
     [catch |-> {"ConnectionRefusedError"}, status |-> 503,
      text |-> "LiteLLM service is not available"],
     [catch |-> {"ConnectionResetError", "BrokenPipeError"}, status |-> 502,
      text |-> "Connection interrupted"],
     [catch |-> {"OSError"}, status |-> 502, text |-> "Network error: {e}"],
     [catch |-> {"Exception"}, status |-> 500,
      text |-> "Internal proxy error: {type(e).__name__}"] >>

\* The classes an exception is an instance of (Python's and urllib's hierarchy).
Bases(cls) ==
  CASE cls = "HTTPError" -> {"HTTPError", "URLError", "OSError", "Exception"}
    [] cls = "URLError" -> {"URLError", "OSError", "Exception"}
    [] cls = "ConnectionRefusedError" ->
         {"ConnectionRefusedError", "ConnectionError", "OSError", "Exception"}
    [] cls = "ConnectionResetError" ->
         {"ConnectionResetError", "ConnectionError", "OSError", "Exception"}
    [] cls = "BrokenPipeError" ->
         {"BrokenPipeError", "ConnectionError", "OSError", "Exception"}
    [] cls = "TimeoutError" -> {"TimeoutError", "OSError", "Exception"}
    [] cls = "IncompleteRead" -> {"IncompleteRead", "HTTPException", "Exception"}
    [] OTHER -> {cls, "Exception"}

\* The first except clause that catches e.
HandlerOf(e) ==
  Handlers[CHOOSE i \in 1..Len(Handlers) :
             /\ Handlers[i].catch \cap Bases(e.cls) # {}
             /\ \A j \in 1..(i - 1) : Handlers[j].catch \cap Bases(e.cls) = {}]

\* What the clause writes after its status line and headers.
ErrorBody(h, e) ==
  CASE h.text = "Service unavailable: {reason}" -> <<"Service unavailable: ", e.msg>>
    [] h.text = "Network error: {e}" -> <<"Network error: ", e.msg>>
    [] h.text = "Internal proxy error: {type(e).__name__}" ->
         <<"Internal proxy error: ", e.cls>>
    [] OTHER -> <<h.text>>

response_skip == {"transfer-encoding", "connection"}

\* Lines 69-71 and 76-78: the upstream's headers that are relayed.
RelayHeaders(hdrs) == SelectSeq(hdrs, LAMBDA h : Lower(h.k) \notin response_skip)

\* What is written to the caller's connection.
StatusLine(code) == [k |-> "status", code |-> code, h |-> <<>>, b |-> <<>>]
HeaderBlock(h) == [k |-> "headers", code |-> 0, h |-> h, b |-> <<>>]
BodyBytes(b) == [k |-> "body", code |-> 0, h |-> <<>>, b |-> b]

\* BaseHTTPRequestHandler.send_response adds these two headers itself.
OwnHeaders == <<Hdr("Server", "BaseHTTP"), Hdr("Date", "now")>>

\* send_response(code); send_header(...) for each of hdrs; end_headers()
SendHead(code, hdrs) == <<StatusLine(code), HeaderBlock(OwnHeaders \o hdrs)>>

(***************************************************************************)
(* Inputs                                                                   *)
(***************************************************************************)
\* Connections the clients open.
NConn == 2

Conns == 1..NConn

Methods == {"GET", "POST", "PUT"}

BaseHeaders ==
  { <<>>,
    <<Hdr("HOST", "proxy"), Hdr("connection", "keep-alive"), Hdr("Keep-Alive", "5"),
      Hdr("Transfer-Encoding", "identity"), Hdr("X-Api-Key", "k"),
      Hdr("Accept", "a"), Hdr("Accept", "b")>> }

SentBodies == {<<>>, BadUtf8Body, NotJsonBody} \cup JsonBodies

LengthKinds == {"none", "exact", "lower", "twice", "abc", "negative", "zero"}

\* The Content-Length headers a client sends with the body sent.
LengthHeaders(kind, sent) ==
  CASE kind = "exact" -> <<Hdr("Content-Length", ToString(ByteLen(sent)))>>
    [] kind = "lower" -> <<Hdr("content-length", ToString(ByteLen(sent)))>>
    [] kind = "twice" -> <<Hdr("Content-Length", ToString(ByteLen(sent))),
                           Hdr("CONTENT-LENGTH", ToString(ByteLen(sent)))>>
    [] kind = "abc" -> <<Hdr("Content-Length", "abc")>>
    [] kind = "negative" -> <<Hdr("Content-Length", "-3")>>
    [] kind = "zero" -> <<Hdr("Content-Length", "0")>>
    [] OTHER -> <<>>

Requests ==
  {[method |-> m, hdrs |-> b \o LengthHeaders(k, sent), sent |-> sent]
   : m \in Methods, b \in BaseHeaders, k \in LengthKinds, sent \in SentBodies}

NoRequest == [method |-> "", hdrs |-> <<>>, sent |-> <<>>]

UpstreamHeaders ==
  { <<Hdr("Content-Length", "2")>>,
    <<Hdr("Transfer-Encoding", "chunked"), Hdr("connection", "close"),
      Hdr("X-Api-Key", "k")>> }

\* What urlopen returns (2xx) or raises as HTTPError (the rest).
UpstreamResponses ==
  {[status |-> c, hdrs |-> h, body |-> <<"hi">>] : c \in {200, 404}, h \in UpstreamHeaders}

NoResponse == [status |-> 0, hdrs |-> <<>>, body |-> <<>>]

\* What urlopen raises when the upstream gives no response.
UrlopenErrors ==
  {"URLError", "ConnectionRefusedError", "ConnectionResetError", "BrokenPipeError",
   "TimeoutError", "BadStatusLine"}

\* What response.read() raises when the upstream fails while its body is read.
ReadErrors == {"ConnectionResetError", "IncompleteRead", "TimeoutError"}

(***************************************************************************)
(* State                                                                   *)
(***************************************************************************)
VARIABLES
  sPc,      \* SpecStrip: "start", "stripped" (after one call), "again" (after two)
  sIn,      \* SpecStrip: the tree before the first call
  sOut,     \* SpecStrip: the tree after the last call
  sMod,     \* SpecStrip: the flag the last call returned
  conn,     \* each connection: "idle", "pending" (request sent, not yet accepted),
            \* "handling", "closed"
  cur,      \* the connection the server's one thread is handling, 0 if none
  pc,       \* where that handler is: "none", "proxy", "urlopen", "relay", "body",
            \* "except", "done" (it returned), "crashed" (an exception left it)
  request,  \* the inbound request: method, headers, the body bytes the client sent
  body,     \* the local body
  decoded,  \* "no" (json.loads not tried), "yes", "failed"
  modified, \* the local modified
  req,      \* the Request built for urlopen
  upstream, \* the requests issued to the upstream for this inbound request
  resp,     \* the upstream's response, or the HTTPError's
  exc,      \* the exception raised
  out,      \* what was written to the caller's connection
  gone      \* the caller's connection no longer takes writes

stripVars == <<sPc, sIn, sOut, sMod>>
handlerVars ==
  <<pc, request, body, decoded, modified, req, upstream, resp, exc, out, gone>>
serverVars == <<conn, cur, pc, request, body, decoded, modified, req, upstream, resp,
                exc, out, gone>>
vars == <<sPc, sIn, sOut, sMod, conn, cur, pc, request, body, decoded, modified, req,
          upstream, resp, exc, out, gone>>

\* No handler is running.
Idle ==
  /\ pc = "none"
  /\ request = NoRequest
  /\ body = <<>>
  /\ decoded = "no"
  /\ modified = FALSE
  /\ req = NoReq
  /\ upstream = <<>>
  /\ resp = NoResponse
  /\ exc = NoExc
  /\ out = <<>>
  /\ gone = FALSE

(***************************************************************************)
(* SpecStrip: the stripper on every bounded tree                           *)
(***************************************************************************)
InitStrip ==
  /\ sPc = "start"
  /\ sIn \in Trees
  /\ sOut = sIn
  /\ sMod = FALSE
  /\ conn = [c \in Conns |-> "idle"]
  /\ cur = 0
  /\ Idle

\* One call of _strip_thinking_params on the tree as it now is.
StripCall ==
  /\ sPc \in {"start", "stripped"}
  /\ LET r == strip_thinking_params(sOut) IN
       /\ sOut' = r.d
       /\ sMod' = r.m
  /\ sPc' = IF sPc = "start" THEN "stripped" ELSE "again"
  /\ UNCHANGED sIn
  /\ UNCHANGED serverVars

NextStrip == StripCall

SpecStrip == InitStrip /\ [][NextStrip]_vars

(***************************************************************************)
(* Spec: HTTPServer.serve_forever with ProxyHandler                        *)
(***************************************************************************)
Init ==
  /\ sPc = "unused"
  /\ sIn = Num(0)
  /\ sOut = Num(0)
  /\ sMod = FALSE
  /\ conn = [c \in Conns |-> "idle"]
  /\ cur = 0
  /\ Idle

\* A client connects and sends its request.
Connect(c) ==
  /\ conn[c] = "idle"
  /\ conn' = [conn EXCEPT ![c] = "pending"]
  /\ UNCHANGED <<cur, handlerVars, stripVars>>

\* The methods ProxyHandler defines a do_ method for.
HasHandler(method) == method \in {"GET", "POST"}

\* serve_forever takes the next connection when its thread is free; the handler
\* reads the request line and headers and dispatches on the method: do_GET,
\* do_POST, or send_error(501) for a method with no do_ method.
Accept(c) ==
  /\ cur = 0
  /\ conn[c] = "pending"
  /\ \E r \in Requests :
       /\ request' = r
       /\ IF HasHandler(r.method)
          THEN /\ pc' = "proxy"
               /\ out' = <<>>
          ELSE /\ pc' = "done"
               /\ out' = SendHead(501, <<Hdr("Connection", "close")>>)
                           \o <<BodyBytes(<<"Unsupported method">>)>>
  /\ conn' = [conn EXCEPT ![c] = "handling"]
  /\ cur' = c
  /\ UNCHANGED <<body, decoded, modified, req, upstream, resp, exc, gone, stripVars>>

\* Lines 31-66: read the body, strip it, build the headers and the Request.  An
\* exception here is outside the try statement and leaves the handler.
Prepare ==
  /\ pc = "proxy"
  /\ LET rd == ReadBody(request)
         st == StripBody(request.method, rd.body)
     IN IF rd.exc # NoExc
        THEN /\ exc' = rd.exc
             /\ pc' = "crashed"
             /\ UNCHANGED <<body, decoded, modified, req>>
        ELSE IF st.exc # NoExc
        THEN /\ exc' = st.exc
             /\ pc' = "crashed"
             /\ body' = rd.body
             /\ decoded' = st.decoded
             /\ UNCHANGED <<modified, req>>
        ELSE /\ body' = st.body
             /\ decoded' = st.decoded
             /\ modified' = st.modified
             /\ req' = Request(request.method, BuildHeaders(request.hdrs, st.body),
                               st.body)
             /\ pc' = "urlopen"
             /\ UNCHANGED exc
  /\ UNCHANGED <<conn, cur, request, upstream, resp, out, gone, stripVars>>

\* Line 67: urlopen(req) sends the request and blocks until the upstream's
\* status and headers arrive, or raises.
Urlopen ==
  /\ pc = "urlopen"
  /\ upstream' = Append(upstream, req)
  /\ \/ \E r \in UpstreamResponses :
          /\ resp' = r
          /\ IF r.status = 200
             THEN pc' = "relay" /\ exc' = NoExc
             ELSE pc' = "except" /\ exc' = Exc("HTTPError")
     \/ \E e \in UrlopenErrors :
          /\ exc' = Exc(e)
          /\ pc' = "except"
          /\ UNCHANGED resp
  /\ UNCHANGED <<conn, cur, request, body, decoded, modified, req, out, gone, stripVars>>

\* Lines 68-72: the upstream's status and headers are written to the caller.
RelayHead ==
  /\ pc = "relay"
  /\ out' = out \o SendHead(resp.status, RelayHeaders(resp.hdrs))
  /\ pc' = "body"
  /\ UNCHANGED <<conn, cur, request, body, decoded, modified, req, upstream, resp, exc,
                 gone, stripVars>>

\* Line 73: self.wfile.write(response.read()).  The read may raise, and so may
\* the write when the caller has gone.
RelayBody ==
  /\ pc = "body"
  /\ \/ /\ out' = Append(out, BodyBytes(resp.body))
        /\ pc' = "done"
        /\ UNCHANGED <<exc, gone>>
     \/ \E e \in ReadErrors :
          /\ exc' = Exc(e)
          /\ pc' = "except"
          /\ UNCHANGED <<out, gone>>
     \/ /\ exc' = Exc("BrokenPipeError")
        /\ gone' = TRUE
        /\ pc' = "except"
        /\ UNCHANGED out
  /\ UNCHANGED <<conn, cur, request, body, decoded, modified, req, upstream, resp,
                 stripVars>>

\* Lines 74-105: the first except clause that catches the exception writes a
\* status line, headers and a body.  When the caller has gone the clause's own
\* write raises, and that exception leaves the handler.
Except ==
  /\ pc = "except"
  /\ LET h == HandlerOf(exc) IN
     IF gone
     THEN /\ pc' = "crashed"
          /\ UNCHANGED out
     ELSE /\ pc' = "done"
          /\ out' = out \o
               (IF h.text = "relay"
                THEN SendHead(resp.status, RelayHeaders(resp.hdrs))
                       \o <<BodyBytes(resp.body)>>
                ELSE SendHead(h.status, <<>>) \o <<BodyBytes(ErrorBody(h, exc))>>)
  /\ UNCHANGED <<conn, cur, request, body, decoded, modified, req, upstream, resp, exc,
                 gone, stripVars>>

\* The handler is over: the server closes the connection (shutdown_request; after
\* an exception, handle_error first) and its thread is free again.
Finish ==
  /\ pc \in {"done", "crashed"}
  /\ conn' = [conn EXCEPT ![cur] = "closed"]
  /\ cur' = 0
  /\ pc' = "none"
  /\ request' = NoRequest
  /\ body' = <<>>
  /\ decoded' = "no"
  /\ modified' = FALSE
  /\ req' = NoReq
  /\ upstream' = <<>>
  /\ resp' = NoResponse
  /\ exc' = NoExc
  /\ out' = <<>>
  /\ gone' = FALSE
  /\ UNCHANGED stripVars

Next ==
  \/ \E c \in Conns : Connect(c)
  \/ \E c \in Conns : Accept(c)
  \/ Prepare
  \/ Urlopen
  \/ RelayHead
  \/ RelayBody
  \/ Except
  \/ Finish

Spec == Init /\ [][Next]_vars

(***************************************************************************)
(* C1: the stripper's contract, stated over the paths of the tree          *)
(***************************************************************************)
\* One step of a path: into a dict by key (i = 0) or into a list by index (k = "").
KeyStep(k) == [k |-> k, i |-> 0]
IdxStep(i) == [k |-> "", i |-> i]

RECURSIVE PathNodes(_, _)
\* Every node of v, with the path p leading to it: its type, its scalar value,
\* its keys in order and its number of children.
PathNodes(v, p) ==
  {[p |-> p, t |-> v.t, s |-> v.s, ks |-> v.ks, n |-> Len(v.c)]}
  \cup UNION {PathNodes(v.c[i],
                        Append(p, IF v.t = "obj" THEN KeyStep(v.ks[i]) ELSE IdxStep(i)))
              : i \in 1..Len(v.c)}

Forbidden == {"thinking", "extended_thinking", "thinking_budget", "budget_tokens"}

IsForbidden(k) == k \in Forbidden

\* Some dict reachable through dicts and lists has a forbidden key.
HasForbidden(v) == \E n \in PathNodes(v, <<>>) : \E i \in 1..Len(n.ks) : IsForbidden(n.ks[i])

\* The path passes through no forbidden key: the node is outside every removed subtree.
Outside(p) == \A i \in 1..Len(p) : ~IsForbidden(p[i].k)

NotForbidden(k) == ~IsForbidden(k)

\* What must be left of v: each node outside the removed subtrees, with its type and
\* value, a dict keeping its other keys in their order, a list keeping its length.
KeptNodes(v) ==
  {[p |-> n.p, t |-> n.t, s |-> n.s, ks |-> SelectSeq(n.ks, NotForbidden),
    n |-> IF n.t = "obj" THEN Len(SelectSeq(n.ks, NotForbidden)) ELSE n.n]
   : n \in {m \in PathNodes(v, <<>>) : Outside(m.p)}}

\* C1: after _strip_thinking_params no reachable dict has a forbidden key; every
\* node outside a removed subtree keeps its type, value and relative order; and the
\* flag is true exactly when a key was removed (the tree held a forbidden key).
C1_StripContract ==
  sPc = "stripped" =>
    /\ ~HasForbidden(sOut)
    /\ PathNodes(sOut, <<>>) = KeptNodes(sIn)
    /\ sMod = HasForbidden(sIn)
    /\ (~sMod => sOut = sIn)

\* A forbidden key inside a dict inside a list inside a dict was removed, and a
\* forbidden key whose own value held a forbidden key was removed with it.
C1_Witness ==
  /\ sPc = "stripped"
  /\ sMod
  /\ sOut # sIn
  /\ \E n \in PathNodes(sIn, <<>>) :
       /\ Len(n.p) = 3
       /\ n.p[1].k = "model" /\ n.p[2].i = 1 /\ n.p[3].k = "thinking"

(***************************************************************************)
(* Claims about Spec                                                       *)
(***************************************************************************)
\* The body _proxy_request read from the connection (lines 31-32).
InBody == ReadBody(request).body

\* The forwarding attempt was made.
Forwarded == upstream # <<>>

\* C2: when a POST body decodes as JSON and the stripper reports no modification,
\* the body sent to the upstream is byte for byte the inbound body.
C2_UnmodifiedBodyVerbatim ==
  (request.method = "POST" /\ decoded = "yes" /\ ~modified /\ Forwarded)
    => upstream[1].data = InBody

\* C3: a POST body that fails JSON decoding, for whatever reason, never ends the
\* request before it is forwarded, and is forwarded byte for byte.
C3_UndecodableBodyVerbatim ==
  (request.method = "POST" /\ InBody # <<>> /\ loads(InBody).exc # "none")
    => /\ ~(pc = "crashed" /\ ~Forwarded)
       /\ (Forwarded => upstream[1].data = InBody)

\* The status the failure table gives each failure class.
TableStatus(e) ==
  CASE e.cls = "HTTPError" -> resp.status
    [] e.cls \in {"URLError", "ConnectionRefusedError"} -> 503
    [] e.cls \in {"ConnectionResetError", "BrokenPipeError", "TimeoutError"} -> 502
    [] OTHER -> 500

\* The status line the caller reads first is its response's status.
CallerStatus == IF out # <<>> /\ out[1].k = "status" THEN out[1].code ELSE 0

\* C4: the failure of the forwarding attempt determines the caller's status as the
\* failure table says, and a 500 body names the failure's type, not its message.
C4_FailureStatus ==
  (pc = "done" /\ exc # NoExc)
    => /\ CallerStatus = TableStatus(exc)
       /\ (TableStatus(exc) = 500 => out[Len(out)].b = <<"Internal proxy error: ", exc.cls>>)

\* Lemma: the except clauses themselves follow the table: the clause that catches
\* the exception sends the table's status (HTTPError: the relay clause).
ExceptChainFollowsTable ==
  pc = "except" =>
    LET h == HandlerOf(exc) IN
    IF h.text = "relay" THEN exc.cls = "HTTPError" ELSE h.status = TableStatus(exc)

StatusLines(o) == Len(SelectSeq(o, LAMBDA x : x.k = "status"))

\* One status line, one header block, one body.
OneResponse(o) ==
  /\ Len(o) = 3
  /\ o[1].k = "status" /\ o[2].k = "headers" /\ o[3].k = "body"

\* C5: a request whose forwarding attempt was made gets exactly one response,
\* whatever the outcome: never a second status line, and when the handler is over
\* one complete response.
C5_ExactlyOneResponse ==
  Forwarded =>
    /\ StatusLines(out) <= 1
    /\ (pc \in {"done", "crashed"} => OneResponse(out))

\* The first Content-Length value is missing, or is no positive integer.
NoUsableLength ==
  LET hits == SelectSeq(request.hdrs, LAMBDA h : FoldCase(h.k) = "content-length") IN
  hits = <<>> \/ hits[1].v \notin {ToString(n) : n \in 1..MaxInt}

\* C6: a Content-Length that is absent, zero, negative or no integer makes the
\* request bodyless; it never ends the request before it is forwarded.
C6_BadLengthIsBodyless ==
  (pc \notin {"none", "proxy"} /\ HasHandler(request.method) /\ NoUsableLength)
    => /\ ~(pc = "crashed" /\ ~Forwarded)
       /\ body = <<>>
       /\ (Forwarded => upstream[1].data = <<>>)

RequestSkip == {"host", "connection", "keep-alive", "transfer-encoding"}
ResponseSkip == {"transfer-encoding", "connection"}

\* The values the inbound request gives for a header name, in any letter case.
InboundValues(name) ==
  {request.hdrs[i].v : i \in {j \in 1..Len(request.hdrs) :
                                FoldCase(request.hdrs[j].k) = name}}

C8_ContentLengthOfNewBody ==
  (req # NoReq /\ modified) =>
    LET cl == SelectSeq(req.hdrs, LAMBDA h : FoldCase(h.k) = "content-length") IN
    /\ cl # <<>>
    /\ \A i \in 1..Len(cl) : cl[i].v = ToString(ByteLen(req.data))

\* C9 as stated: a request with any method is forwarded with that method, and for
\* a method other than POST with its body unchanged.
C9_EveryMethodForwarded ==
  pc = "done" =>
    /\ Forwarded
    /\ upstream[1].method = request.method
    /\ (request.method # "POST" => upstream[1].data = InBody)

\* C9 as amended: only GET and POST requests are forwarded, each with its own
\* method; a GET body is forwarded unchanged and never decoded, only POST takes
\* the strip path; any other method is answered 501 and never forwarded.
C9_GetAndPostForwarded ==
  /\ Forwarded =>
       /\ request.method \in {"GET", "POST"}
       /\ upstream[1].method = request.method
       /\ (request.method = "GET" => upstream[1].data = InBody)
  /\ decoded # "no" => request.method = "POST"
  /\ (pc # "none" /\ request.method \notin {"GET", "POST"}) =>
       /\ pc = "done"
       /\ ~Forwarded
       /\ CallerStatus = 501

\* A GET whose JSON body holds a forbidden key was forwarded with that body.
C9_Witness ==
  /\ request.method = "GET"
  /\ Forwarded
  /\ loads(upstream[1].data).exc = "none"
  /\ HasForbidden(loads(upstream[1].data).data)
  /\ upstream[1].data = request.sent

\* C10: while one request waits on the upstream call, a request that arrived on
\* another connection can be taken up: it does not wait for the first to complete.
C10_NotSerialized ==
  \A c \in Conns :
    (conn[c] = "pending" /\ pc \in {"urlopen", "body"}) => ENABLED Accept(c)

====
